---- MODULE Spec2Model ----
(***************************************************************************)
(* Binance live crypto tracker (src/main.py).                              *)
(*                                                                         *)
(* The program is a Streamlit script.  A script run binds the module       *)
(* globals price_data, ws, latest_price and buffer (lines 23-26), handles  *)
(* the Start/Stop buttons (lines 96-115) and, while tracking, loops over   *)
(* the display code (lines 123-158).  Start Tracking spawns a daemon       *)
(* thread running run_websocket; the websocket library calls on_message    *)
(* on that thread for every frame received.  The thread and the display    *)
(* loop of the run that started it share the module globals, with no lock. *)
(*                                                                         *)
(* Prices are integers (a price in the smallest unit), timestamps are      *)
(* integers (milliseconds).                                                *)
(***************************************************************************)
EXTENDS Integers, Sequences, FiniteSets, TLC

\* ---------------------------------------------------------------- bounds
MaxTicks == 6          \* kline frames delivered in one behaviour of Spec
MaxLongTicks == 107    \* kline frames delivered in one behaviour of SpecLong
MaxRuns == 6           \* script runs in one behaviour of SpecUI
MaxUITicks == 5        \* kline frames delivered in one behaviour of SpecUI
MaxTsTicks == 7        \* kline frames delivered in one behaviour of SpecTs

\* ------------------------------------------------------ program constants
K == 5                 \* deque(maxlen=5), len(buffer) < 5
N == 100               \* .iloc[-100:]

\* The "c" field of a kline frame is a decimal string.
PriceStrings == {"1", "2"}
\* Amounts the user can enter in st.number_input(min_value=0.0).
Amounts == {0, 3}
ConversionTypes == {"Fiat to Cryptocurrency", "Cryptocurrency to Fiat"}

VARIABLES
    price_data,     \* module global: the DataFrame, a sequence of rows
    ws,             \* module global: None or the WebSocketApp
    latest_price,   \* module global
    buffer,         \* module global: deque(maxlen=5)
    tracking,       \* st.session_state.tracking
    screen,         \* the button the last script run rendered
    runs,           \* script runs so far
    wthread,        \* the websocket thread started by the current script run
    orphans,        \* live websocket threads started by earlier script runs
    wpc,            \* position of the websocket thread inside on_message
    msg,            \* the kline of the frame on_message is processing
    acked,          \* the subscription acknowledgement has been received
    conversion_type,\* st.selectbox value of the current script run
    amount,         \* st.number_input value of the current script run
    dpc,            \* position of the script inside the display loop
    shown,          \* what the current pass of the display loop has read
    ticks,          \* history: klines delivered to on_message, in order
    emitted,        \* history: rows appended to price_data, each with the number
                    \*          of klines delivered when it was appended
    committed,      \* history: <<latest_price, price_data>> after each on_message
    reads           \* history: reads of the display loop since the last write

vars == <<price_data, ws, latest_price, buffer, tracking, screen, runs, wthread,
          orphans, wpc, msg, acked, conversion_type, amount, dpc, shown,
          ticks, emitted, committed, reads>>

globals == <<price_data, latest_price, buffer>>
ui == <<tracking, screen, runs, orphans, conversion_type, amount>>
hist == <<ticks, emitted, committed>>

\* ---------------------------------------------------------------- values
None == [none |-> TRUE]
WsNone == "None"
WebSocketApp == "WebSocketApp"
NoKline == [c |-> "", t |-> 0]

\* float(kline["c"])
float(s) == CASE s = "1" -> 1
              [] s = "2" -> 2
              [] OTHER -> 0

\* the conversion truncated to whole seconds
to_datetime_seconds(ms) == [epoch_ms |-> (ms \div 1000) * 1000]

\* pd.to_datetime(kline["t"], unit="ms")
to_datetime(ms) == [epoch_ms |-> ms]

Range(s) == {s[i] : i \in 1..Len(s)}
max(s) == CHOOSE x \in Range(s) : \A y \in Range(s) : y <= x
min(s) == CHOOSE x \in Range(s) : \A y \in Range(s) : x <= y

\* s[-n:]
LastN(s, n) == IF Len(s) <= n THEN s ELSE SubSeq(s, Len(s) - n + 1, Len(s))

\* append on a deque built without maxlen
deque_append_unbounded(buf, price) == Append(buf, price)

\* deque(maxlen=5).append(price)
deque_append(buf, price) == LastN(Append(buf, price), K)

\* aggregate_5s_candlestick with high and low taken from the two end prices only
aggregate_5s_endpoints(buf) ==
    IF Len(buf) < K
    THEN None
    ELSE [open |-> buf[1], high |-> max(<<buf[1], buf[Len(buf)]>>),
          low |-> min(<<buf[1], buf[Len(buf)]>>), close |-> buf[Len(buf)]]

\* aggregate_5s_candlestick waiting for more than five prices, len(buffer) <= 5
aggregate_5s_late(buf) ==
    IF Len(buf) <= K
    THEN None
    ELSE [open |-> buf[1], high |-> max(buf), low |-> min(buf), close |-> buf[Len(buf)]]

\* aggregate_5s_candlestick with max and min exchanged
aggregate_5s_swapped(buf) ==
    IF Len(buf) < K
    THEN None
    ELSE [open |-> buf[1], high |-> min(buf), low |-> max(buf), close |-> buf[Len(buf)]]

\* aggregate_5s_candlestick(), reading the global buffer passed as buf
aggregate_5s_candlestick(buf) ==
    IF Len(buf) < K
    THEN None
    ELSE [open |-> buf[1], high |-> max(buf), low |-> min(buf), close |-> buf[Len(buf)]]

\* the row of lines 49-52 with kline["t"] read as seconds
new_data_seconds(kline, candlestick) ==
    [Timestamp |-> to_datetime(kline.t * 1000),
     Open |-> candlestick.open, High |-> candlestick.high,
     Low |-> candlestick.low, Close |-> candlestick.close]

\* the row built at lines 49-52
new_data(kline, candlestick) ==
    [Timestamp |-> to_datetime(kline.t),
     Open |-> candlestick.open, High |-> candlestick.high,
     Low |-> candlestick.low, Close |-> candlestick.close]

\* the concatenation keeping the first rows, .iloc[:100]
concat_keep_first(df, row) ==
    IF Len(df) + 1 <= N THEN Append(df, row) ELSE SubSeq(Append(df, row), 1, N)

\* the concatenation with its operands exchanged, pd.concat([new_data, price_data])
concat_prepend(df, row) == LastN(<<row>> \o df, N)

\* pd.concat([price_data, new_data]).iloc[-100:]
concat_keep_last(df, row) == LastN(Append(df, row), N)

\* price_data["<name>"]
Column(df, name) == [i \in 1..Len(df) |-> df[i][name]]

\* The conversions return exact quotients, kept as numerator and denominator;
\* a zero price makes the division raise ZeroDivisionError.
convert_to_coin(amt, price) == [num |-> amt, den |-> price]
convert_to_fiat(amt, price) == [num |-> amt * price, den |-> 1]

NoShown == [pass |-> FALSE, price |-> 0, x |-> <<>>, open |-> <<>>, high |-> <<>>,
            low |-> <<>>, close |-> <<>>, conv_price |-> 0,
            converted |-> [num |-> 0, den |-> 1]]

\* reads of the globals made by the display loop, each with the line reading
NoReads == [price |-> {}, data |-> {}]

\* ------------------------------------------------------------------ Init
InitGlobals ==
    /\ price_data = <<>>
    /\ ws = WsNone
    /\ latest_price = 0
    /\ buffer = <<>>

InitHist ==
    /\ ticks = <<>>
    /\ emitted = <<>>
    /\ committed = {<<0, <<>>>>}
    /\ reads = NoReads

\* The state right after Start Tracking was pressed in a script run: the
\* thread has been started (line 109) and the script enters the display loop.
Init ==
    /\ InitGlobals
    /\ InitHist
    /\ tracking = TRUE
    /\ screen = "Start Tracking"
    /\ runs = 1
    /\ wthread = "l85"
    /\ orphans = 0
    /\ wpc = "idle"
    /\ msg = NoKline
    /\ acked = FALSE
    /\ conversion_type \in ConversionTypes
    /\ amount \in Amounts
    /\ dpc = "l123"
    /\ shown = NoShown

\* ------------------------------------------------- the websocket thread
\* run_websocket, lines 85-90: bind the global ws, then run_forever.
run_websocket ==
    /\ wthread = "l85"
    /\ ws' = WebSocketApp
    /\ wthread' = "run_forever"
    /\ UNCHANGED <<globals, ui, wpc, msg, acked, dpc, shown, hist, reads>>

\* on_error, lines 55-56: the library reports a transport error between two
\* frames; the handler logs it.
on_error ==
    /\ wthread = "run_forever"
    /\ wpc = "idle"
    /\ wthread' = "error"
    /\ UNCHANGED <<globals, ws, ui, wpc, msg, acked, dpc, shown, hist, reads>>

\* an on_close that empties the tick buffer for the next connection
on_close_reset ==
    /\ wthread \in {"run_forever", "error"}
    /\ wpc = "idle"
    /\ wthread' = "closed"
    /\ buffer' = <<>>
    /\ UNCHANGED <<price_data, latest_price, ws, ui, wpc, msg, acked, dpc, shown,
                   hist, reads>>

\* on_close, lines 58-59: the connection is gone, after an error or without
\* one; the handler logs it and run_forever returns, ending the thread.
on_close ==
    /\ wthread \in {"run_forever", "error"}
    /\ wpc = "idle"
    /\ wthread' = "closed"
    /\ UNCHANGED <<globals, ws, ui, wpc, msg, acked, dpc, shown, hist, reads>>

\* an on_message that reads a missing "k" as a kline with price 0
on_message_no_k_zero ==
    /\ wthread = "run_forever"
    /\ wpc = "idle"
    /\ ~acked
    /\ acked' = TRUE
    /\ latest_price' = 0
    /\ UNCHANGED <<price_data, buffer, ws, ui, wthread, wpc, msg, dpc, shown, hist,
                   reads>>

\* on_message, lines 38-39, for a frame without "k" (the answer to SUBSCRIBE).
on_message_no_k ==
    /\ wthread = "run_forever"
    /\ wpc = "idle"
    /\ ~acked
    /\ acked' = TRUE
    /\ UNCHANGED <<globals, ws, ui, wthread, wpc, msg, dpc, shown, hist, reads>>

\* on_message without latest_price in its global statement: line 42 binds a local
on_message_l42_local(c, t) ==
    /\ wthread = "run_forever"
    /\ wpc = "idle"
    /\ msg' = [c |-> c, t |-> t]
    /\ wpc' = "l45"
    /\ ticks' = Append(ticks, [c |-> c, t |-> t])
    /\ reads' = NoReads
    /\ UNCHANGED <<price_data, latest_price, buffer, ws, ui, wthread, acked, dpc,
                   shown, emitted, committed>>

\* on_message, lines 38-42, for a kline frame: latest_price = float(kline["c"]).
on_message_l42(c, t) ==
    /\ wthread = "run_forever"
    /\ wpc = "idle"
    /\ msg' = [c |-> c, t |-> t]
    /\ latest_price' = float(c)
    /\ wpc' = "l45"
    /\ ticks' = Append(ticks, [c |-> c, t |-> t])
    /\ reads' = NoReads
    /\ UNCHANGED <<price_data, buffer, ws, ui, wthread, acked, dpc, shown,
                   emitted, committed>>

\* a line 45 whose append can be lost
on_message_l45_lossy ==
    /\ wpc = "l45"
    /\ buffer' \in {deque_append(buffer, float(msg.c)), buffer}
    /\ wpc' = "l46"
    /\ reads' = NoReads
    /\ UNCHANGED <<price_data, latest_price, ws, ui, wthread, msg, acked, dpc,
                   shown, hist>>

\* on_message, line 45: buffer.append(price).
on_message_l45 ==
    /\ wpc = "l45"
    /\ buffer' = deque_append(buffer, float(msg.c))
    /\ wpc' = "l46"
    /\ reads' = NoReads
    /\ UNCHANGED <<price_data, latest_price, ws, ui, wthread, msg, acked, dpc,
                   shown, hist>>

\* on_message, lines 46-53: aggregate, and append the row when there is one.
on_message_l46 ==
    /\ wpc = "l46"
    /\ LET candlestick == aggregate_5s_candlestick(buffer) IN
       IF candlestick # None
       THEN /\ price_data' = concat_keep_last(price_data, new_data(msg, candlestick))
            /\ emitted' = Append(emitted, [row |-> new_data(msg, candlestick),
                                            at |-> Len(ticks)])
       ELSE UNCHANGED <<price_data, emitted>>
    /\ wpc' = "idle"
    /\ msg' = NoKline
    /\ committed' = committed \cup {<<latest_price, price_data'>>}
    /\ reads' = NoReads
    /\ UNCHANGED <<latest_price, buffer, ws, ui, wthread, acked, dpc, shown, ticks>>

\* --------------------------------------------------- the display loop
\* line 123: while st.session_state.tracking
display_l123 ==
    /\ dpc = "l123"
    /\ dpc' = IF tracking THEN "l124" ELSE "end"
    /\ shown' = NoShown
    /\ UNCHANGED <<globals, ws, ui, wthread, wpc, msg, acked, hist, reads>>

\* a display pass without the test of line 124
display_l124_always ==
    /\ dpc = "l124"
    /\ dpc' = "l126"
    /\ reads' = [reads EXCEPT !.data = @ \cup {<<"l124", price_data>>}]
    /\ UNCHANGED <<globals, ws, ui, wthread, wpc, msg, acked, shown, hist>>

\* line 124: if not price_data.empty
display_l124 ==
    /\ dpc = "l124"
    /\ dpc' = IF price_data # <<>> THEN "l126" ELSE "l158"
    /\ reads' = [reads EXCEPT !.data = @ \cup {<<"l124", price_data>>}]
    /\ UNCHANGED <<globals, ws, ui, wthread, wpc, msg, acked, shown, hist>>

\* line 126: the subheader shows latest_price
display_l126 ==
    /\ dpc = "l126"
    /\ shown' = [shown EXCEPT !.price = latest_price]
    /\ reads' = [reads EXCEPT !.price = @ \cup {<<"l126", latest_price>>}]
    /\ dpc' = "l130"
    /\ UNCHANGED <<globals, ws, ui, wthread, wpc, msg, acked, hist>>

\* lines 129-135: the figure reads the five columns, one read of the global each
display_column(at, field, name, next) ==
    /\ dpc = at
    /\ shown' = [shown EXCEPT ![field] = Column(price_data, name)]
    /\ reads' = [reads EXCEPT !.data = @ \cup {<<at, price_data>>}]
    /\ dpc' = next
    /\ UNCHANGED <<globals, ws, ui, wthread, wpc, msg, acked, hist>>

display_l130 == display_column("l130", "x", "Timestamp", "l131")
display_l131 == display_column("l131", "open", "Open", "l132")
display_l132 == display_column("l132", "high", "High", "l133")
display_l133 == display_column("l133", "low", "Low", "l134")
display_l134 == display_column("l134", "close", "Close", "l147")

\* lines 147-156: the conversion reads latest_price again
display_l147 ==
    /\ dpc = "l147"
    /\ reads' = [reads EXCEPT !.price = @ \cup {<<"l147", latest_price>>}]
    /\ IF conversion_type = "NameError"
       THEN /\ dpc' = "NameError"
            /\ UNCHANGED shown
       ELSE IF conversion_type = "Fiat to Cryptocurrency"
       THEN IF latest_price = 0
            THEN /\ dpc' = "ZeroDivisionError"
                 /\ shown' = [shown EXCEPT !.conv_price = latest_price]
            ELSE /\ dpc' = "l158"
                 /\ shown' = [shown EXCEPT !.pass = TRUE,
                                           !.conv_price = latest_price,
                                           !.converted = convert_to_coin(amount, latest_price)]
       ELSE /\ dpc' = "l158"
            /\ shown' = [shown EXCEPT !.pass = TRUE,
                                      !.conv_price = latest_price,
                                      !.converted = convert_to_fiat(amount, latest_price)]
    /\ UNCHANGED <<globals, ws, ui, wthread, wpc, msg, acked, hist>>

\* a display pass that drops the oldest row it has drawn before sleeping
display_l158_trim ==
    /\ dpc = "l158"
    /\ dpc' = "l123"
    /\ price_data' = IF price_data = <<>> THEN <<>> ELSE Tail(price_data)
    /\ UNCHANGED <<latest_price, buffer, ws, ui, wthread, wpc, msg, acked, shown,
                   hist, reads>>

\* line 158: time.sleep(1)
display_l158 ==
    /\ dpc = "l158"
    /\ dpc' = "l123"
    /\ UNCHANGED <<globals, ws, ui, wthread, wpc, msg, acked, shown, hist, reads>>

display ==
    \/ display_l123
    \/ display_l124
    \/ display_l126
    \/ display_l130
    \/ display_l131
    \/ display_l132
    \/ display_l133
    \/ display_l134
    \/ display_l147
    \/ display_l158

\* -------------------------------------------------------- a script run
\* Streamlit executes the script from the top for every widget interaction,
\* each time in a new module namespace: lines 23-26 bind fresh globals, and a
\* thread started by an earlier run keeps the globals of the run that started
\* it.  click is the button pressed, or "other" for an edited input.
\* Lines 96-115 then handle the buttons and line 118 enters the display loop.
script_run(click) ==
    /\ runs < MaxRuns
    /\ click \in {screen, "other"}
    /\ runs' = runs + 1
    \* lines 23-26
    /\ price_data' = <<>>
    /\ latest_price' = 0
    /\ buffer' = <<>>
    /\ orphans' = orphans + (IF wthread \in {"l85", "run_forever", "error"} THEN 1 ELSE 0)
    /\ wpc' = "idle"
    /\ msg' = NoKline
    /\ acked' = FALSE
    /\ ticks' = <<>>
    /\ emitted' = <<>>
    /\ committed' = {<<0, <<>>>>}
    /\ reads' = NoReads
    /\ shown' = NoShown
    /\ LET ws_l24 == WsNone IN
       IF ~tracking
       THEN \* lines 100-109
            /\ conversion_type' \in ConversionTypes
            /\ amount' \in Amounts
            /\ screen' = "Start Tracking"
            /\ ws' = ws_l24
            /\ IF click = "Start Tracking"
               THEN /\ tracking' = TRUE
                    /\ wthread' = "l85"
               ELSE /\ tracking' = FALSE
                    /\ wthread' = "none"
       ELSE \* lines 110-115: the inputs of lines 101-103 are not bound
            /\ conversion_type' = "NameError"
            /\ amount' = 0
            /\ screen' = "Stop Tracking"
            /\ IF click = "Stop Tracking"
               THEN /\ tracking' = FALSE
                    /\ ws' = WsNone
                    /\ wthread' = IF ws_l24 # WsNone THEN "closed" ELSE "none"
               ELSE /\ tracking' = TRUE
                    /\ ws' = ws_l24
                    /\ wthread' = "none"
    \* lines 118-123
    /\ dpc' = IF tracking' THEN "l123" ELSE "end"

\* websocket threads that are alive
LiveThreads == orphans + (IF wthread \in {"l85", "run_forever", "error"} THEN 1 ELSE 0)

\* ----------------------------------------------------------------- Spec
\* One script run after Start Tracking: its websocket thread and its display
\* loop.  Timestamps of successive klines advance by one.
Clock == Len(ticks) + 1

Deliver ==
    /\ Len(ticks) < MaxTicks
    /\ \E c \in PriceStrings : on_message_l42(c, Clock)

Next ==
    \/ run_websocket
    \/ on_message_no_k
    \/ Deliver
    \/ on_message_l45
    \/ on_message_l46
    \/ display

Spec == Init /\ [][Next]_vars

\* ------------------------------------------------------------- SpecLong
\* The websocket thread alone, fed a fixed price pattern long enough for
\* price_data to overflow its N rows.
LongPrice(n) == IF n % 3 = 0 THEN "2" ELSE "1"

DeliverLong ==
    /\ Len(ticks) < MaxLongTicks
    /\ \E c \in {LongPrice(Clock)} : on_message_l42(c, Clock)

NextLong ==
    \/ run_websocket
    \/ on_message_no_k
    \/ DeliverLong
    \/ on_message_l45
    \/ on_message_l46

SpecLong == Init /\ [][NextLong]_vars

\* --------------------------------------------------------------- SpecTs
\* The websocket thread alone, fed klines whose timestamps never decrease:
\* each kline carries the timestamp of the one before it or the next one.
LastT == IF ticks = <<>> THEN 0 ELSE ticks[Len(ticks)].t

DeliverTs ==
    /\ Len(ticks) < MaxTsTicks
    /\ \E c \in {"1"}, t \in {LastT, LastT + 1} : on_message_l42(c, t)

NextTs ==
    \/ run_websocket
    \/ on_message_no_k
    \/ DeliverTs
    \/ on_message_l45
    \/ on_message_l46

SpecTs == Init /\ [][NextTs]_vars

\* --------------------------------------------------------------- SpecUI
\* The session from its first script run on: button presses and input edits
\* rerun the script; the thread of the current run and its display loop run
\* in between.
InitUI ==
    /\ InitGlobals
    /\ InitHist
    /\ tracking = FALSE
    /\ screen = "Start Tracking"
    /\ runs = 1
    /\ wthread = "none"
    /\ orphans = 0
    /\ wpc = "idle"
    /\ msg = NoKline
    /\ acked = FALSE
    /\ conversion_type \in ConversionTypes
    /\ amount \in Amounts
    /\ dpc = "end"
    /\ shown = NoShown

Interact == \E click \in {"Start Tracking", "Stop Tracking", "other"} : script_run(click)

DeliverUI ==
    /\ Len(ticks) < MaxUITicks
    /\ \E c \in {"1"} : on_message_l42(c, Clock)

NextUI ==
    \/ Interact
    \/ run_websocket
    \/ on_error
    \/ on_close
    \/ on_message_no_k
    \/ DeliverUI
    \/ on_message_l45
    \/ on_message_l46
    \/ display

SpecUI == InitUI /\ [][NextUI]_vars

\* ================================================================ claims
\* The decimal value of a frame's price string.
PriceOf(c) == IF c = "2" THEN 2 ELSE 1

\* the klines a row summarises: the K most recent ones when it was appended
Window(e) == (e.at - K + 1)..e.at

\* C1: between two frames, the number of candles emitted so far equals
\* floor(n / K) for the n klines delivered (a candle only on every K-th tick).
C1_EmissionCountIsFloor ==
    wpc = "idle" => Len(emitted) = Len(ticks) \div K

\* C2: the step that appends a candle leaves the tick buffer empty.
C2_BufferClearedOnEmission ==
    [][Len(emitted') > Len(emitted) => buffer' = <<>>]_vars

\* C3: every emitted candle has the open of the first, the close of the last,
\* the high of the maximum and the low of the minimum of the K klines it covers.
C3_CandleSummarisesWindow ==
    \A j \in 1..Len(emitted) :
        LET e == emitted[j] IN
        /\ e.at >= K
        /\ e.at <= Len(ticks)
        /\ e.row.Open = PriceOf(ticks[e.at - K + 1].c)
        /\ e.row.Close = PriceOf(ticks[e.at].c)
        /\ \A i \in Window(e) : PriceOf(ticks[i].c) <= e.row.High
        /\ \E i \in Window(e) : PriceOf(ticks[i].c) = e.row.High
        /\ \A i \in Window(e) : PriceOf(ticks[i].c) >= e.row.Low
        /\ \E i \in Window(e) : PriceOf(ticks[i].c) = e.row.Low

C3_Witness ==
    \E j \in 1..Len(emitted) :
        /\ j >= 2
        /\ emitted[j].row.High # emitted[j].row.Low
        /\ emitted[j].row.Open # emitted[j].row.Close
        /\ emitted[j].row.High # emitted[j].row.Open

C5_HistoryIsLastN ==
    /\ Len(price_data) <= N
    /\ Len(price_data) = (IF Len(emitted) <= N THEN Len(emitted) ELSE N)
    /\ \A i \in 1..Len(price_data) :
           price_data[i] = emitted[Len(emitted) - Len(price_data) + i].row

C5_Witness ==
    /\ Len(emitted) > N + 1
    /\ Len(price_data) = N
    /\ price_data[1] # emitted[1].row

\* C6: latest_price is 0 before any kline and the price of the last kline
\* delivered afterwards, whether or not that kline closed a window.
C6_LatestPriceIsLastTick ==
    /\ ticks = <<>> => latest_price = 0
    /\ (ticks # <<>> /\ wpc = "idle") => latest_price = PriceOf(ticks[Len(ticks)].c)

C6_Witness ==
    /\ wpc = "idle"
    /\ Len(ticks) = K + 1
    /\ Len(emitted) = 2
    /\ latest_price = 2
    /\ ticks[K].c = "1"

\* C7: what a complete pass of the display loop has read (the price shown,
\* the five columns drawn, the price converted) is the state left by one
\* completed on_message.
C7_ReaderSeesCommittedState ==
    (dpc = "l158" /\ shown.pass) =>
        \E cm \in committed :
            /\ shown.price = cm[1]
            /\ shown.conv_price = cm[1]
            /\ shown.x = Column(cm[2], "Timestamp")
            /\ shown.open = Column(cm[2], "Open")
            /\ shown.high = Column(cm[2], "High")
            /\ shown.low = Column(cm[2], "Low")
            /\ shown.close = Column(cm[2], "Close")

\* C8: at most one websocket thread is alive at any time.
C8_AtMostOneLiveThread == LiveThreads <= 1

\* C9: every row of price_data has Low <= Open <= High, Low <= Close <= High
\* and Low <= High.
C9_CandleOrdered ==
    \A i \in 1..Len(price_data) :
        LET r == price_data[i] IN
        /\ r.Low <= r.Open /\ r.Open <= r.High
        /\ r.Low <= r.Close /\ r.Close <= r.High
        /\ r.Low <= r.High

C9_Witness ==
    \E i \in 1..Len(price_data) :
        /\ price_data[i].Low < price_data[i].High
        /\ price_data[i].Open = price_data[i].Low
        /\ price_data[i].Close = price_data[i].High

\* C10: the reads the display loop makes between two writes of the websocket
\* thread return the same latest_price and the same price_data, and no step
\* of the display loop changes latest_price, buffer or price_data.
ReadsAgree ==
    /\ \A r1, r2 \in reads.price : r1[2] = r2[2]
    /\ \A r1, r2 \in reads.data : r1[2] = r2[2]

C10_ReadsDoNotChangeState ==
    /\ []ReadsAgree
    /\ [][display => UNCHANGED <<latest_price, buffer, price_data>>]_vars

C10_Witness ==
    /\ Cardinality(reads.price) = 2
    /\ Cardinality(reads.data) = 6
    /\ price_data # <<>>


\* C11: a step changes price_data only by appending one row at the end and,
\* when full, dropping the first: every surviving row keeps its five fields
\* and its place relative to the other surviving rows.
C11_CandlesImmutable ==
    [][price_data' # price_data =>
         /\ Len(price_data') >= 1
         /\ LET kept == SubSeq(price_data', 1, Len(price_data') - 1) IN
            IF Len(price_data) < N
            THEN kept = price_data
            ELSE kept = Tail(price_data)]_vars

C11_Witness ==
    /\ Len(emitted) = N + 2
    /\ price_data[N - 1] = emitted[N + 1].row
    /\ price_data[1] = emitted[3].row

\* C12: the buffer never holds more than K prices; it holds the most recent
\* prices pushed, in arrival order, the oldest being dropped beyond K.
Pushed == IF wpc = "l45" THEN Len(ticks) - 1 ELSE Len(ticks)

C12_BufferBounded ==
    /\ Len(buffer) <= K
    /\ Len(buffer) = (IF Pushed <= K THEN Pushed ELSE K)
    /\ \A i \in 1..Len(buffer) :
           buffer[i] = PriceOf(ticks[Pushed - Len(buffer) + i].c)

C12_Witness ==
    /\ Pushed = K + 1
    /\ Len(buffer) = K
    /\ PriceOf(ticks[1].c) # buffer[1]
    /\ buffer[K] = 2


\* C13 as stated: with klines delivered in non-decreasing timestamp order, the
\* Timestamps of price_data never decrease from first to last row and no two
\* rows share a Timestamp.
TimestampsNonDecreasing ==
    \A i, j \in 1..Len(price_data) :
        i < j => price_data[i].Timestamp.epoch_ms <= price_data[j].Timestamp.epoch_ms

StrictTicks == \A i, j \in 1..Len(ticks) : i < j => ticks[i].t < ticks[j].t

C13_ChronologicalDistinct ==
    /\ TimestampsNonDecreasing
    /\ \A i, j \in 1..Len(price_data) :
           i # j => price_data[i].Timestamp # price_data[j].Timestamp

\* C13 amended: the Timestamps never decrease, and no two rows share one when
\* the timestamps of the klines strictly increase.
C13_Chronological ==
    /\ TimestampsNonDecreasing
    /\ StrictTicks =>
           \A i, j \in 1..Len(price_data) :
               i # j => price_data[i].Timestamp # price_data[j].Timestamp

C13_Witness ==
    /\ Len(price_data) = 3
    /\ StrictTicks
    /\ price_data[1].Timestamp.epoch_ms < price_data[3].Timestamp.epoch_ms


\* C14: the steps of on_error and on_close leave latest_price, buffer and
\* price_data as they were, and so does every step taken while the thread of
\* the current script run stays closed.
C14_DisconnectKeepsState ==
    [][(/\ runs' = runs
        /\ \/ wthread' # wthread /\ wthread' \in {"error", "closed"}
           \/ wthread = "closed")
       => UNCHANGED <<latest_price, buffer, price_data>>]_vars

C14_Witness ==
    /\ wthread = "closed"
    /\ price_data # <<>>
    /\ latest_price = 1
    /\ dpc = "l158"
    /\ shown.pass


\* C15: aggregate_5s_candlestick gives None exactly when the buffer holds fewer
\* than K prices and a record of open, high, low, close otherwise; the step of
\* on_message that calls it appends a row in the second case only and leaves
\* the buffer, latest_price and ws as they were.
AggregateResult ==
    LET c == aggregate_5s_candlestick(buffer) IN
    /\ (c = None) <=> (Len(buffer) < K)
    /\ c # None => DOMAIN c = {"open", "high", "low", "close"}

C15_AggregateNoneIffShort ==
    /\ []AggregateResult
    /\ [][(wpc = "l46" /\ wpc' = "idle") =>
            /\ (Len(emitted') = Len(emitted) + 1) <=> (Len(buffer) >= K)
            /\ (Len(emitted') = Len(emitted)) <=> (Len(buffer) < K)
            /\ UNCHANGED <<buffer, latest_price, ws, tracking>>]_vars

C15_Witness ==
    /\ wpc = "idle"
    /\ Len(ticks) = K
    /\ Len(emitted) = 1
    /\ buffer = <<2, 1, 2, 1, 2>>


\* C16: between two frames latest_price, buffer and price_data are determined
\* by the sequence of klines delivered so far, so two runs fed the same klines
\* agree after every one of them; and on_message, once entered, can always
\* take its next step and is at no other position than lines 42-53.
WindowPrices(tk, n) == {PriceOf(tk[i].c) : i \in (n - K + 1)..n}

RowAfter(tk, n) ==
    [Timestamp |-> [epoch_ms |-> tk[n].t],
     Open |-> PriceOf(tk[n - K + 1].c),
     High |-> CHOOSE x \in WindowPrices(tk, n) : \A y \in WindowPrices(tk, n) : y <= x,
     Low |-> CHOOSE x \in WindowPrices(tk, n) : \A y \in WindowPrices(tk, n) : x <= y,
     Close |-> PriceOf(tk[n].c)]

StateAfter(tk) ==
    LET n == Len(tk)
        b == IF n <= K THEN n ELSE K
        rows == IF n < K THEN 0 ELSE IF n - K + 1 <= N THEN n - K + 1 ELSE N
    IN [latest_price |-> IF n = 0 THEN 0 ELSE PriceOf(tk[n].c),
        buffer |-> [i \in 1..b |-> PriceOf(tk[n - b + i].c)],
        price_data |-> [i \in 1..rows |-> RowAfter(tk, n - rows + i)]]

C16_DeterministicTotal ==
    /\ wpc \in {"idle", "l45", "l46"}
    /\ wpc = "l45" => ENABLED on_message_l45
    /\ wpc = "l46" => ENABLED on_message_l46
    /\ wpc = "idle" =>
           /\ latest_price = StateAfter(ticks).latest_price
           /\ buffer = StateAfter(ticks).buffer
           /\ price_data = StateAfter(ticks).price_data

C16_Witness ==
    /\ wpc = "idle"
    /\ Len(ticks) = K + 1
    /\ Len(price_data) = 2
    /\ price_data[1].High # price_data[2].High
    /\ latest_price = 1


\* C17: the step of on_message for a frame without "k" leaves latest_price,
\* buffer and price_data as they were and emits no candle.
C17_NoKlineNoChange ==
    [][(acked' # acked /\ runs' = runs) =>
          UNCHANGED <<latest_price, buffer, price_data, emitted, ticks>>]_vars

C17_Witness ==
    /\ acked
    /\ wpc = "idle"
    /\ Len(ticks) = 2
    /\ latest_price = 2
    /\ buffer = <<1, 2>>

\* C18: the display loop is past line 124 only while price_data is non-empty;
\* the conversion is never reached with latest_price 0 and never divides by
\* zero; and while fewer than K klines have been delivered a pass shows
\* nothing, whatever latest_price is.
C18_DisplayOnlyWithHistory ==
    /\ dpc # "ZeroDivisionError"
    /\ dpc \in {"l126", "l130", "l131", "l132", "l133", "l134", "l147"} =>
           price_data # <<>>
    /\ dpc = "l147" => latest_price # 0
    /\ shown.pass => shown.conv_price # 0
    /\ Len(ticks) < K => (shown = NoShown /\ dpc \in {"l123", "l124", "l158"})

C18_Witness ==
    /\ Len(ticks) = K - 1
    /\ wpc = "idle"
    /\ latest_price = 2
    /\ dpc = "l158"
    /\ reads.data = {<<"l124", <<>>>>}
    /\ shown = NoShown


\* C19: the script run in which Stop Tracking is pressed while a websocket
\* thread is alive leaves no websocket thread alive and ws None.
C19_StopClosesConnection ==
    [][(tracking /\ ~tracking' /\ LiveThreads > 0) =>
          (LiveThreads' = 0 /\ ws' = WsNone)]_vars

====
